---- MODULE Spec2Model ----
(***************************************************************************)
(* Model of the flashbot relay client (flashbot.go): construction of the   *)
(* clients, the seven single-relay operations with the request pipeline    *)
(* (encode, sign, HTTP round trip, status check, decode, relay-error       *)
(* check), and the multi-relay broadcast of spec section 4.5.              *)
(***************************************************************************)
EXTENDS Integers, Sequences, FiniteSets, TLC

VARIABLES flashbots, last, bc

vars == <<flashbots, last, bc>>

---------------------------------------------------------------------------
(* Bounds of the model.                                                    *)

MaxTxs == 2
MaxResults == 2
MaxRelays == 3

---------------------------------------------------------------------------
(* Values.                                                                 *)

\* A nil pointer, a nil error, a nil result.
Nil == [nil |-> TRUE]

\* A nil *ecdsa.PrivateKey / *common.Address.
NilKey == "nil"

PrvKeys == {"k1", "k2"}

BoundedSeq(S, n) == UNION {[1..k -> S] : k \in 0..n}

\* uint64 values, kept in two 24-bit limbs: value = hi * 2^24 + lo.
Limb == 16777216

U64(n) == [hi |-> n \div Limb, lo |-> n % Limb]

IsZero(u) == u.hi = 0 /\ u.lo = 0

\* The block numbers a caller passes.
BlockNums == {U64(0), U64(26)}

\* Hex-encoded signed transactions of a bundle.
TxHexes == {"0xaa", "0xbb"}

Bundles == BoundedSeq(TxHexes, MaxTxs)

HexDigit(d) == SubSeq("0123456789abcdef", d + 1, d + 1)

RECURSIVE HexNat(_)
HexNat(n) == IF n < 16 THEN HexDigit(n) ELSE HexNat(n \div 16) \o HexDigit(n % 16)

\* The six hex digits of a low limb below a non-zero high limb.
HexLimb(n) ==
    HexDigit((n \div 1048576) % 16) \o HexDigit((n \div 65536) % 16)
        \o HexDigit((n \div 4096) % 16) \o HexDigit((n \div 256) % 16)
        \o HexDigit((n \div 16) % 16) \o HexDigit(n % 16)

\* hexutil.EncodeUint64: "0x" and the hex digits, no leading zeros.
EncodeUint64(u) ==
    IF u.hi = 0 THEN "0x" \o HexNat(u.lo) ELSE "0x" \o HexNat(u.hi) \o HexLimb(u.lo)

\* crypto.PubkeyToAddress of the public half of a private key.
PubkeyToAddress(k) == IF k = "k1" THEN "0xA1" ELSE "0xA2"

---------------------------------------------------------------------------
(* Relay endpoint descriptors.                                             *)

Api(url, sim, mcall, msend, hdrs) ==
    [URL |-> url, SupportsSimulation |-> sim, MethodCall |-> mcall,
     MethodSend |-> msend, CustomHeaders |-> hdrs]

\* relayURLDefault for the supported network ids.
relayURLDefault(netID) ==
    IF netID = 1 THEN [url |-> "https://relay.flashbots.net", err |-> Nil]
    ELSE IF netID = 5 THEN [url |-> "https://relay-goerli.flashbots.net", err |-> Nil]
    ELSE [url |-> "", err |-> [frames |-> <<[msg |-> "network id not supported id",
                                              detail |-> [netID |-> netID]]>>]]

DefaultApi(netID) ==
    LET r == relayURLDefault(netID)
    IN  IF r.err # Nil THEN [api |-> Nil, err |-> r.err]
        ELSE [api |-> Api(r.url, TRUE, "", "", {}), err |-> Nil]

\* The endpoints the model builds clients for: the default relay, the
\* relays NewAll adds without simulation, relays with every combination of
\* method-name overrides, relays with custom headers, and an endpoint whose
\* URL does not parse.
Apis ==
    { DefaultApi(1).api,
      Api("https://api.edennetwork.io/v1/bundle", FALSE, "", "", {}),
      Api("https://call.example", TRUE, "custom_call", "", {<<"Authorization", "token">>}),
      Api("https://send.example", TRUE, "", "custom_send", {}),
      Api("https://both.example", TRUE, "custom_call", "custom_send", {}),
      Api("https://nosim.example", FALSE, "custom_call", "custom_send",
          {<<"Authorization", "token">>}),
      Api("://bad", TRUE, "", "", {}),
      Api("://bad", FALSE, "", "", {}) }

\* url.Parse inside http.NewRequestWithContext.
URLParses(url) == url # "://bad"

---------------------------------------------------------------------------
(* Errors: the frames of an error, outermost wrap first, each with its    *)
(* message and the values formatted into it.                               *)

Errorf(msg, detail) == [frames |-> <<[msg |-> msg, detail |-> detail]>>]

Wrapf(err, msg, detail) == [frames |-> <<[msg |-> msg, detail |-> detail]>> \o err.frames]

\* The innermost message of an error.
Cause(err) == err.frames[Len(err.frames)].msg

\* The messages of an error, outermost first.
Messages(err) == [i \in 1..Len(err.frames) |-> err.frames[i].msg]

NoDetail == [none |-> TRUE]

Wrap(err, msg) == Wrapf(err, msg, NoDetail)

---------------------------------------------------------------------------
(* Wire codec, outbound: params structs and the JSON-RPC envelope.         *)

\* The encoding as it would be if the transactions were sent last first.
MarshalParamsSendCall_Reversed(p) ==
    [blockNumber |-> [s |-> p.BlockNum], stateBlockNumber |-> [s |-> p.StateBlockNum],
     txs |-> [list |-> [i \in 1..Len(p.Txs) |-> p.Txs[Len(p.Txs) + 1 - i]]]]

\* encoding/json with omitempty: a JSON object holds the non-empty fields.
MarshalParamsSendCall(p) ==
    LET keys == (IF p.BlockNum = "" THEN {} ELSE {"blockNumber"})
                \cup (IF p.StateBlockNum = "" THEN {} ELSE {"stateBlockNumber"})
                \cup (IF Len(p.Txs) = 0 THEN {} ELSE {"txs"})
    IN  [k \in keys |-> CASE k = "blockNumber" -> [s |-> p.BlockNum]
                          [] k = "stateBlockNumber" -> [s |-> p.StateBlockNum]
                          [] k = "txs" -> [list |-> p.Txs]]

MarshalParamsPrivateTransaction(p) ==
    LET keys == (IF p.Tx = "" THEN {} ELSE {"tx"})
                \cup (IF p.MaxBlockNumber = "" THEN {} ELSE {"maxBlockNumber"})
                \cup {"preferences"}
    IN  [k \in keys |-> CASE k = "tx" -> [s |-> p.Tx]
                          [] k = "maxBlockNumber" -> [s |-> p.MaxBlockNumber]
                          [] k = "preferences" ->
                                [obj |-> [f \in (IF p.Preferences.Fast THEN {"fast"} ELSE {})
                                            |-> [b |-> TRUE]]]]

MarshalParamsCancelPrivateTransaction(p) ==
    [k \in (IF p.TxHash = "" THEN {} ELSE {"txHash"}) |-> [s |-> p.TxHash]]

MarshalParamsBundleStats(p) ==
    LET keys == (IF p.BlockNum = "" THEN {} ELSE {"blockNumber"})
                \cup (IF p.StateBlockNum = "" THEN {} ELSE {"stateBlockNumber"})
                \cup (IF p.BundleHash = "" THEN {} ELSE {"bundleHash"})
    IN  [k \in keys |-> CASE k = "blockNumber" -> [s |-> p.BlockNum]
                          [] k = "stateBlockNumber" -> [s |-> p.StateBlockNum]
                          [] k = "bundleHash" -> [s |-> p.BundleHash]]

\* newMessage: the variadic params become a JSON array of one element.
newMessage(method, param) ==
    [Version |-> "2.0", ID |-> 1, Method |-> method, Params |-> <<param>>]

\* The txs list a relay reads from the params of a request.
TxsOf(payload) ==
    LET obj == payload.Params[1]
    IN  IF "txs" \in DOMAIN obj THEN obj["txs"].list ELSE <<>>

---------------------------------------------------------------------------
(* Signer.                                                                 *)

\* crypto.Sign over the personal-message hash of the payload digest.
Sign(payload, prvKey) == [digestOf |-> payload, signer |-> prvKey]

\* signPayload as it would be without the test for an unset key.
signPayload_NoKeyCheck(payload, prvKey, pubKey) ==
    [header |-> [address |-> pubKey, signature |-> Sign(payload, prvKey)], err |-> Nil]

signPayload(payload, prvKey, pubKey) ==
    IF prvKey = NilKey \/ pubKey = NilKey
    THEN [header |-> Nil, err |-> Errorf("private or public key is not set", NoDetail)]
    ELSE [header |-> [address |-> pubKey, signature |-> Sign(payload, prvKey)],
          err |-> Nil]

---------------------------------------------------------------------------
(* The network: what the transport and the relay do with a request.        *)

Statuses == {200, 204, 300, 404}

\* Per-transaction results of a response: executed, failed, reverted.
TxResults ==
    { [Error |-> "", Revert |-> ""],
      [Error |-> "execution reverted", Revert |-> ""],
      [Error |-> "", Revert |-> "0x08c379a0"] }

ResultObjects ==
    { [t |-> "object", bundleHash |-> "0xb1", results |-> rs] :
        rs \in BoundedSeq(TxResults, MaxResults) }

JSONResults ==
    { [t |-> "absent"], [t |-> "bool", v |-> TRUE], [t |-> "string", v |-> "0xtxhash"] }
    \cup ResultObjects

NoError == [Code |-> 0, Message |-> ""]

RelayError == [Code |-> -32000, Message |-> "bundle rejected"]

\* Response bodies: text that is not JSON, success envelopes of every
\* result shape, and envelopes that carry an error object.
Bodies ==
    { [json |-> FALSE, raw |-> "<html>"] }
    \cup { [json |-> TRUE, error |-> NoError, result |-> r] : r \in JSONResults }
    \cup { [json |-> TRUE, error |-> RelayError, result |-> r] :
             r \in { [t |-> "absent"],
                     [t |-> "object", bundleHash |-> "0xb1", results |-> <<>>] } }

\* Outcomes of http.Client.Do and of reading the response body: no
\* connection, the caller's deadline firing during the round trip, a context
\* already cancelled when the call is made, or a response.
Envs ==
    { [tag |-> "neterr"], [tag |-> "timeout"], [tag |-> "cancelled"] }
    \cup { [tag |-> "resp", status |-> st, readErr |-> FALSE, body |-> b] :
             st \in Statuses, b \in Bodies }
    \cup { [tag |-> "resp", status |-> st, readErr |-> TRUE] : st \in Statuses }

\* A body that is a well-formed success payload of a bundle operation.
SuccessBody ==
    [json |-> TRUE, error |-> NoError,
     result |-> [t |-> "object", bundleHash |-> "0xb1",
                 results |-> <<[Error |-> "", Revert |-> ""]>>]]

\* A success payload with another bundle hash.
SuccessBodyOther ==
    [SuccessBody EXCEPT !.result.bundleHash = "0xb2"]

\* The outcomes a relay of a broadcast is given: no connection, a success
\* with either bundle hash and a relay error.
BroadcastEnvs ==
    { [tag |-> "neterr"],
      [tag |-> "resp", status |-> 200, readErr |-> FALSE, body |-> SuccessBody],
      [tag |-> "resp", status |-> 200, readErr |-> FALSE, body |-> SuccessBodyOther],
      [tag |-> "resp", status |-> 200, readErr |-> FALSE,
       body |-> [json |-> TRUE, error |-> RelayError, result |-> [t |-> "absent"]]] }

---------------------------------------------------------------------------
(* Relay client: one authenticated HTTP round trip.                        *)

\* What a call did besides returning: the stages it ran, the requests it
\* handed to the HTTP client, and whether it closed the response body.
NoTrace == [stages |-> <<>>, requests |-> <<>>, delivered |-> FALSE,
            gotResponse |-> FALSE, bodyClosed |-> FALSE]

\* The header as it would be without the loop over the custom headers.
Header_NoCustomHeaders(signedP, api) ==
    [contentType |-> "application/json", Accept |-> "application/json",
     XFlashbotsSignature |-> signedP, custom |-> {}]

\* The header of a request: the three fixed entries and the custom ones.
Header(signedP, api) ==
    [contentType |-> "application/json", Accept |-> "application/json",
     XFlashbotsSignature |-> signedP, custom |-> api.CustomHeaders]

\* The status test as it would be if only 4xx and 5xx were failures.
BadStatus_From400(status) == status >= 400

\* The status test of req: integer division of the status code.
BadStatus(status) == status \div 100 # 2

\* Do as it would be with one retry of a request that got no response.
Do_RetryOnFailure(request, env) ==
    [NoTrace EXCEPT !.requests = IF env.tag = "resp" THEN <<request>>
                                 ELSE <<request, request>>,
                    !.delivered = env.tag \notin {"neterr", "cancelled"}]

\* Do as it would be if a request were sent although its context is
\* already cancelled.
Do_SendsWhenCancelled(request, env) ==
    [NoTrace EXCEPT !.requests = <<request>>, !.delivered = env.tag # "neterr"]

\* The trace of a call after mevHTTPClient.Do(req): one request handed to
\* the HTTP client; it reaches the relay unless the connection failed or
\* the caller's context was cancelled before the call.
Do(request, env) ==
    [NoTrace EXCEPT !.requests = <<request>>,
                    !.delivered = env.tag \notin {"neterr", "cancelled"}]

\* The error of mevHTTPClient.Do when no response came back.
DoError(env) ==
    Errorf(CASE env.tag = "timeout" -> "context deadline exceeded"
             [] env.tag = "cancelled" -> "context canceled"
             [] OTHER -> "connection refused", NoDetail)

\* req from the status check on: a response came back. req itself closes
\* the body only after it has read it; on a bad status
\* httputil.DumpResponse drains the body and closes it when the read
\* succeeds, and leaves it open when the read fails.
reqReply(request, env) ==
    LET sent == Do(request, env)
    IN  IF BadStatus(env.status)
        THEN [res |-> Nil,
              err |-> IF env.readErr
                      THEN Errorf("bad response status", [status |-> env.status])
                      ELSE Errorf("bad response resp respDump",
                                  [status |-> env.status, respDump |-> env.body,
                                   reqDump |-> request]),
              trace |-> [sent EXCEPT !.stages = <<"encode", "newrequest", "sign", "send", "status">>,
                                     !.gotResponse = TRUE,
                                     !.bodyClosed = ~env.readErr]]
        ELSE IF env.readErr
        THEN [res |-> Nil,
              err |-> Wrap(Errorf("unexpected EOF", NoDetail), "reading flashbot reply"),
              trace |-> [sent EXCEPT !.stages = <<"encode", "newrequest", "sign", "send", "status", "read">>,
                                     !.gotResponse = TRUE]]
        ELSE [res |-> env.body, err |-> Nil,
              trace |-> [sent EXCEPT !.stages = <<"encode", "newrequest", "sign", "send", "status", "read", "close">>,
                                     !.gotResponse = TRUE, !.bodyClosed = TRUE]]

\* reqSend as it would be if a deadline that fired during the round trip
\* were not honoured and the reply that arrives late were used.
reqSend_IgnoresDeadline(request, env) ==
    IF env.tag \in {"neterr", "cancelled"}
    THEN [res |-> Nil, err |-> Wrap(DoError(env), "flashbot request"),
          trace |-> [Do(request, env) EXCEPT !.stages = <<"encode", "newrequest", "sign", "send">>]]
    ELSE reqReply(request, IF env.tag = "timeout"
                           THEN [tag |-> "resp", status |-> 200, readErr |-> FALSE,
                                 body |-> SuccessBody]
                           ELSE env)

\* req from mevHTTPClient.Do on: an error of Do, which a deadline or a
\* cancellation of the request's context is, ends the call.
reqSend(request, env) ==
    IF env.tag # "resp"
    THEN [res |-> Nil, err |-> Wrap(DoError(env), "flashbot request"),
          trace |-> [Do(request, env) EXCEPT !.stages = <<"encode", "newrequest", "sign", "send">>]]
    ELSE reqReply(request, env)

req(self, method, param, env) ==
    LET payload == newMessage(method, param)
        signed  == signPayload(payload, self.prvKey, self.pubKey)
        request == [Method |-> "POST", URL |-> self.api.URL,
                    Header |-> Header(signed.header, self.api), Body |-> payload]
    IN  IF ~URLParses(self.api.URL)
        THEN [res |-> Nil,
              err |-> Wrap(Errorf("parse url", NoDetail), "creatting flashbot request"),
              trace |-> [NoTrace EXCEPT !.stages = <<"encode", "newrequest">>]]
        ELSE IF signed.err # Nil
        THEN [res |-> Nil, err |-> Wrap(signed.err, "signing flashbot request"),
              trace |-> [NoTrace EXCEPT !.stages = <<"encode", "newrequest", "sign">>]]
        ELSE reqSend(request, env)

---------------------------------------------------------------------------
(* Wire codec, inbound.                                                    *)

\* json.Unmarshal into a response struct whose Result field has Go type
\* struct, string or bool: it fails on text that is not JSON and on a
\* result of another JSON type; an absent result leaves the zero value.
UnmarshalFails(goType, body) ==
    \/ ~body.json
    \/ /\ body.result.t # "absent"
       /\ body.result.t # (CASE goType = "struct" -> "object"
                             [] goType = "string" -> "string"
                             [] goType = "bool" -> "bool")

ZeroResult == [BundleHash |-> "", Results |-> <<>>]

\* The Response a body decodes into.
UnmarshalResponse(body) ==
    [Error |-> body.error,
     Result |-> IF body.result.t = "object"
                THEN [BundleHash |-> body.result.bundleHash, Results |-> body.result.results]
                ELSE ZeroResult]

\* The relay-error test as it would be if it looked at the results only.
HasRelayError_IgnoresCode(rr) ==
    Len(rr.Result.Results) > 0 /\ rr.Result.Results[1].Error # ""

\* The relay-error test of parseResp.
HasRelayError(rr) ==
    rr.Error.Code # 0 \/ (Len(rr.Result.Results) > 0 /\ rr.Result.Results[1].Error # "")

parseResp(resp, blockNum) ==
    IF UnmarshalFails("struct", resp)
    THEN [rr |-> Nil, err |-> Wrapf(Errorf("json", NoDetail), "unmarshal flashbot response",
                                    [body |-> resp])]
    ELSE LET rr == UnmarshalResponse(resp)
         IN  IF HasRelayError(rr)
             THEN [rr |-> Nil,
                   err |-> Errorf("flashbot request returned an error",
                                  [Error |-> rr.Error, block |-> blockNum,
                                   first |-> IF Len(rr.Result.Results) > 0
                                             THEN rr.Result.Results[1] ELSE Nil])]
             ELSE [rr |-> rr, err |-> Nil]

---------------------------------------------------------------------------
(* The seven operations of a client. Each returns the result, the error    *)
(* and the trace of its round trip.                                        *)

Return(result, err, trace) == [result |-> result, err |-> err, trace |-> trace]

\* The tail of the three bundle operations: wrap a failed round trip,
\* otherwise decode with parseResp.
Finish(r, wrapMsg, blockNum) ==
    IF r.err # Nil
    THEN Return(Nil, Wrap(r.err, wrapMsg), r.trace)
    ELSE LET p == parseResp(r.res, blockNum)
         IN  IF p.err # Nil
             THEN Return(Nil, p.err,
                         [r.trace EXCEPT !.stages = @ \o <<"decode">>
                             \o (IF Cause(p.err) = "json" THEN <<>> ELSE <<"relayerr">>)])
             ELSE Return(p.rr, Nil, [r.trace EXCEPT !.stages = @ \o <<"decode", "relayerr">>])

\* FinishPlain as it would be if a relay error were returned together with
\* the decoded response.
FinishPlain_ResultWithRelayError(r, wrapMsg, goType, decodeErr, relayErr) ==
    IF r.err # Nil
    THEN Return(Nil, Wrap(r.err, wrapMsg), r.trace)
    ELSE IF UnmarshalFails(goType, r.res)
    THEN Return(Nil, decodeErr, [r.trace EXCEPT !.stages = @ \o <<"decode">>])
    ELSE Return([Error |-> r.res.error, Result |-> r.res.result],
                IF r.res.error.Code # 0 THEN relayErr ELSE Nil,
                [r.trace EXCEPT !.stages = @ \o <<"decode", "relayerr">>])

\* The tail of the stats and private-transaction operations: unmarshal
\* into a struct whose Result has the given Go type, then test Error.Code.
\* decodeErr and relayErr are the operation's own error values.
FinishPlain(r, wrapMsg, goType, decodeErr, relayErr) ==
    IF r.err # Nil
    THEN Return(Nil, Wrap(r.err, wrapMsg), r.trace)
    ELSE IF UnmarshalFails(goType, r.res)
    THEN Return(Nil, decodeErr, [r.trace EXCEPT !.stages = @ \o <<"decode">>])
    ELSE IF r.res.error.Code # 0
    THEN Return(Nil, relayErr,
                [r.trace EXCEPT !.stages = @ \o <<"decode", "relayerr">>])
    ELSE Return([Error |-> r.res.error, Result |-> r.res.result], Nil,
                [r.trace EXCEPT !.stages = @ \o <<"decode", "relayerr">>])

\* errors.Wrapf(err, "unmarshal flashbot response:%v", string(resp))
DecodeErrWithBody(resp) ==
    Wrapf(Errorf("json", NoDetail), "unmarshal flashbot response", [body |-> resp])

\* errors.Wrap(err, "unmarshal flashbot bundle stats response")
DecodeErrBundleStats(resp) ==
    Wrap(Errorf("json", NoDetail), "unmarshal flashbot bundle stats response")

\* errors.Wrap(err, "unmarshal flashbot user stats response")
DecodeErrUserStats(resp) ==
    Wrap(Errorf("json", NoDetail), "unmarshal flashbot user stats response")

\* "flashbot request returned an error:%+v,%v"
RelayErrPlain(e) == Errorf("flashbot request returned an error", [Error |-> e])

\* ParamsGasEstimate has the fields and tags of ParamsSendCall; its Tx
\* entries are kept as opaque values.
EstimateGasBundle(self, txs, blockNum, env) ==
    LET method == IF self.api.MethodSend # "" THEN self.api.MethodSend
                  ELSE "eth_estimateGasBundle"
        param  == MarshalParamsSendCall(
                      [Txs |-> txs, StateBlockNum |-> "latest",
                       BlockNum |-> EncodeUint64(blockNum)])
    IN  Finish(req(self, method, param, env), "flashbot send request", blockNum)

SendPrivateTransaction(self, txHex, blockNum, fast, env) ==
    LET param == MarshalParamsPrivateTransaction(
                     [Tx |-> txHex, MaxBlockNumber |-> EncodeUint64(blockNum),
                      Preferences |-> [Fast |-> FALSE]])
        r     == req(self, "eth_sendPrivateTransaction", param, env)
    IN  FinishPlain(r, "flashbot private TX request", "string",
                    DecodeErrWithBody(r.res),
                    Errorf("flashbot request returned an error",
                           [Error |-> r.res.error, block |-> blockNum]))

CancelPrivateTransaction(self, txHash, env) ==
    LET param == MarshalParamsCancelPrivateTransaction([TxHash |-> txHash])
        r     == req(self, "eth_cancelPrivateTransaction", param, env)
    IN  FinishPlain(r, "flashbot cancel pivate TX request", "bool",
                    DecodeErrWithBody(r.res), RelayErrPlain(r.res.error))

SendBundle(self, txsHex, blockNum, env) ==
    LET method == IF self.api.MethodSend # "" THEN self.api.MethodSend
                  ELSE "eth_sendBundle"
        param  == MarshalParamsSendCall(
                      [Txs |-> txsHex, StateBlockNum |-> "latest",
                       BlockNum |-> EncodeUint64(blockNum)])
    IN  Finish(req(self, method, param, env), "flashbot send request", blockNum)

blockDummy == [hi |-> 5960464, lo |-> 8011776]

\* CallBundle as it would be if the caller's block number were sent and
\* reported as the block of the simulation.
CallBundleSimulate_CallerBlock(self, txsHex, blockNumState, env) ==
    LET method == IF self.api.MethodSend # "" THEN self.api.MethodSend
                  ELSE "eth_callBundle"
        state  == IF ~IsZero(blockNumState) THEN EncodeUint64(blockNumState)
                  ELSE "latest"
        param  == MarshalParamsSendCall(
                      [Txs |-> txsHex, StateBlockNum |-> state,
                       BlockNum |-> EncodeUint64(blockNumState)])
        out    == Finish(req(self, method, param, env), "flashbot call request",
                         blockNumState)
    IN  [out EXCEPT !.trace.stages = <<"capability">> \o @]

\* CallBundle past its capability check.
CallBundleSimulate(self, txsHex, blockNumState, env) ==
    LET method == IF self.api.MethodSend # "" THEN self.api.MethodSend
                  ELSE "eth_callBundle"
        state  == IF ~IsZero(blockNumState) THEN EncodeUint64(blockNumState)
                  ELSE "latest"
        param  == MarshalParamsSendCall(
                      [Txs |-> txsHex, StateBlockNum |-> state,
                       BlockNum |-> EncodeUint64(blockDummy)])
        out    == Finish(req(self, method, param, env), "flashbot call request",
                         blockDummy)
    IN  [out EXCEPT !.trace.stages = <<"capability">> \o @]

\* CallBundle as it would be if the capability were tested only after the
\* round trip.
CallBundle_CapabilityAfterSend(self, txsHex, blockNumState, env) ==
    LET out == CallBundleSimulate(self, txsHex, blockNumState, env)
    IN  IF ~self.api.SupportsSimulation
        THEN Return(Nil,
                    Errorf("doesn't support simulations relay", [URL |-> self.api.URL]),
                    [out.trace EXCEPT !.stages = Tail(@) \o <<"capability">>])
        ELSE out

\* CallBundle as it would be without the capability check.
CallBundle_NoCapabilityCheck(self, txsHex, blockNumState, env) ==
    CallBundleSimulate(self, txsHex, blockNumState, env)

CallBundle(self, txsHex, blockNumState, env) ==
    IF ~self.api.SupportsSimulation
    THEN Return(Nil,
                Errorf("doesn't support simulations relay", [URL |-> self.api.URL]),
                [NoTrace EXCEPT !.stages = <<"capability">>])
    ELSE CallBundleSimulate(self, txsHex, blockNumState, env)

GetBundleStats(self, bundleHash, blockNum, env) ==
    LET param == MarshalParamsBundleStats(
                     [BundleHash |-> bundleHash, BlockNum |-> EncodeUint64(blockNum),
                      StateBlockNum |-> ""])
        r     == req(self, "flashbots_getBundleStats", param, env)
    IN  FinishPlain(r, "flashbot bundle stats request", "struct",
                    DecodeErrBundleStats(r.res), RelayErrPlain(r.res.error))

GetUserStats(self, blockNum, env) ==
    LET param == [s |-> EncodeUint64(blockNum)]
        r     == req(self, "flashbots_getUserStats", param, env)
    IN  FinishPlain(r, "flashbot user stats request", "struct",
                    DecodeErrUserStats(r.res), RelayErrPlain(r.res.error))

---------------------------------------------------------------------------
(* Construction.                                                           *)

\* SetKey stores the key and the address derived from it.
\* SetKey as it would be if the address were derived only once.
SetKey_KeepsAddress(self, prvKey) ==
    [self EXCEPT !.prvKey = prvKey,
                 !.pubKey = IF @ = NilKey THEN PubkeyToAddress(prvKey) ELSE @]

SetKey(self, prvKey) ==
    [self EXCEPT !.prvKey = prvKey, !.pubKey = PubkeyToAddress(prvKey)]

New(prvKey, api) ==
    IF api = Nil
    THEN [fb |-> Nil, err |-> Errorf("api can't be empty", NoDetail)]
    ELSE LET fb == [api |-> api, prvKey |-> NilKey, pubKey |-> NilKey]
         IN  IF prvKey # NilKey
             THEN [fb |-> SetKey(fb, prvKey), err |-> Nil]
             ELSE [fb |-> fb, err |-> Nil]

\* NewMulti: one client per endpoint, in the order of the list. Wrapping
\* the error of New formats api.URL and so dereferences the nil endpoint.
RECURSIVE NewMultiLoop(_, _, _)
NewMultiLoop(prvKey, apis, flashbotsSoFar) ==
    IF apis = <<>>
    THEN [flashbots |-> flashbotsSoFar, err |-> Nil, panic |-> FALSE]
    ELSE LET r == New(prvKey, Head(apis))
         IN  IF r.err # Nil
             THEN [flashbots |-> <<>>, err |-> Nil, panic |-> TRUE]
             ELSE NewMultiLoop(prvKey, Tail(apis), Append(flashbotsSoFar, r.fb))

NewMulti(prvKey, apis) ==
    IF Len(apis) < 1
    THEN [flashbots |-> <<>>, panic |-> FALSE,
          err |-> Errorf("should provide at least one api", NoDetail)]
    ELSE NewMultiLoop(prvKey, apis, <<>>)

---------------------------------------------------------------------------
(* The state machine of one client: a caller that holds a client built by  *)
(* New, calls one operation at a time and takes its return values before   *)
(* the next call.                                                          *)

NoCall == [op |-> "none"]

IdleBroadcast == [pc |-> "idle"]

Init ==
    /\ \E prvKey \in PrvKeys \cup {NilKey}, api \in Apis :
           flashbots = <<New(prvKey, api).fb>>
    /\ last = NoCall
    /\ bc = IdleBroadcast

Called(op, i, args, env, out) ==
    [op |-> op, client |-> i, args |-> args, env |-> env, out |-> out]

\* The caller is between two calls.
Idle == last = NoCall /\ bc = IdleBroadcast

DoSetKey ==
    /\ Idle
    /\ \E i \in 1..Len(flashbots), prvKey \in PrvKeys :
           flashbots' = [flashbots EXCEPT ![i] = SetKey(@, prvKey)]
    /\ UNCHANGED <<last, bc>>

DoEstimateGasBundle ==
    /\ Idle
    /\ \E i \in 1..Len(flashbots), txs \in BoundedSeq({"0xaa"}, MaxTxs),
          blockNum \in {U64(26)}, env \in Envs :
           last' = Called("EstimateGasBundle", i, [txs |-> txs, blockNum |-> blockNum], env,
                          EstimateGasBundle(flashbots[i], txs, blockNum, env))
    /\ UNCHANGED <<flashbots, bc>>

DoSendPrivateTransaction ==
    /\ Idle
    /\ \E i \in 1..Len(flashbots), txHex \in {"0xaa"}, blockNum \in BlockNums,
          fast \in BOOLEAN, env \in Envs :
           last' = Called("SendPrivateTransaction", i,
                          [txHex |-> txHex, blockNum |-> blockNum, fast |-> fast], env,
                          SendPrivateTransaction(flashbots[i], txHex, blockNum, fast, env))
    /\ UNCHANGED <<flashbots, bc>>

DoCancelPrivateTransaction ==
    /\ Idle
    /\ \E i \in 1..Len(flashbots), txHash \in {"0xtxhash"}, env \in Envs :
           last' = Called("CancelPrivateTransaction", i, [txHash |-> txHash], env,
                          CancelPrivateTransaction(flashbots[i], txHash, env))
    /\ UNCHANGED <<flashbots, bc>>

DoSendBundle ==
    /\ Idle
    /\ \E i \in 1..Len(flashbots), txsHex \in Bundles, blockNum \in BlockNums,
          env \in Envs :
           last' = Called("SendBundle", i, [txsHex |-> txsHex, blockNum |-> blockNum], env,
                          SendBundle(flashbots[i], txsHex, blockNum, env))
    /\ UNCHANGED <<flashbots, bc>>

DoCallBundle ==
    /\ Idle
    /\ \E i \in 1..Len(flashbots), txsHex \in Bundles, blockNumState \in BlockNums,
          env \in Envs :
           last' = Called("CallBundle", i,
                          [txsHex |-> txsHex, blockNumState |-> blockNumState], env,
                          CallBundle(flashbots[i], txsHex, blockNumState, env))
    /\ UNCHANGED <<flashbots, bc>>

DoGetBundleStats ==
    /\ Idle
    /\ \E i \in 1..Len(flashbots), bundleHash \in {"0xb1"}, blockNum \in BlockNums,
          env \in Envs :
           last' = Called("GetBundleStats", i,
                          [bundleHash |-> bundleHash, blockNum |-> blockNum], env,
                          GetBundleStats(flashbots[i], bundleHash, blockNum, env))
    /\ UNCHANGED <<flashbots, bc>>

DoGetUserStats ==
    /\ Idle
    /\ \E i \in 1..Len(flashbots), blockNum \in BlockNums, env \in Envs :
           last' = Called("GetUserStats", i, [blockNum |-> blockNum], env,
                          GetUserStats(flashbots[i], blockNum, env))
    /\ UNCHANGED <<flashbots, bc>>

\* The caller takes the return values of the call and goes on.
CallerContinue ==
    /\ last # NoCall
    /\ bc = IdleBroadcast
    /\ last' = NoCall
    /\ UNCHANGED <<flashbots, bc>>

Next ==
    \/ DoSetKey
    \/ DoEstimateGasBundle
    \/ DoSendPrivateTransaction
    \/ DoCancelPrivateTransaction
    \/ DoSendBundle
    \/ DoCallBundle
    \/ DoGetBundleStats
    \/ DoGetUserStats
    \/ CallerContinue

Spec == Init /\ [][Next]_vars

---------------------------------------------------------------------------
(* Bundle dispatcher (spec section 4.5): a broadcast of a bundle to the    *)
(* clients built by NewMulti, one relay after the other.                   *)

\* The endpoints of a broadcast.
BroadcastApis ==
    { DefaultApi(1).api,
      Api("https://api.edennetwork.io/v1/bundle", FALSE, "", "", {}),
      Api("https://call.example", TRUE, "custom_call", "", {<<"Authorization", "token">>}) }

\* The bundles a broadcast is given.
BroadcastBundles == { <<"0xaa">>, <<"0xaa", "0xbb">> }

InitMulti ==
    /\ \E prvKey \in {"k1", NilKey}, apis \in BoundedSeq(BroadcastApis \cup {Nil}, MaxRelays) :
           LET r == NewMulti(prvKey, apis)
           IN  /\ r.err = Nil
               /\ ~r.panic
               /\ flashbots = r.flashbots
    /\ last = NoCall
    /\ bc = IdleBroadcast

\* Eligibility as it would be if broadcastCall called every relay.
Eligible_Always(kind, fb) == TRUE

\* A relay is eligible for a call kind unless the kind is a simulation and
\* the relay does not support simulation.
Eligible(kind, fb) == kind = "send" \/ fb.api.SupportsSimulation

\* broadcastSend and broadcastCall start with nothing aggregated and a
\* context that is live; returned keeps what each relay call returned.
BroadcastBegin ==
    /\ Idle
    /\ \E kind \in {"send", "call"}, bundle \in BroadcastBundles,
          targetBlock \in {U64(26)} :
           bc' = [pc |-> "running", kind |-> kind, bundle |-> bundle,
                  targetBlock |-> targetBlock, next |-> 1, attempted |-> <<>>,
                  label |-> "", rep |-> Nil, errs |-> <<>>,
                  ctx |-> "live", cancelAt |-> 0, returned |-> <<>>]
    /\ UNCHANGED <<flashbots, last>>

\* The dispatcher as it would be if a failure ended the broadcast.
AfterRelay_AbortOnFailure(b, i, url, out) ==
    IF out.err = Nil
    THEN [b EXCEPT !.next = i + 1, !.attempted = Append(@, i),
                   !.label = @ \o url \o out.result.Result.BundleHash \o ", ",
                   !.rep = out.result]
    ELSE [b EXCEPT !.next = Len(flashbots) + 1, !.attempted = Append(@, i),
                   !.errs = Append(@, [relay |-> i, err |-> out.err])]

\* The dispatcher as it would be if the first success stayed the
\* representative result.
AfterRelay_KeepsFirstSuccess(b, i, url, out) ==
    IF out.err = Nil
    THEN [b EXCEPT !.next = i + 1, !.attempted = Append(@, i),
                   !.label = @ \o url \o out.result.Result.BundleHash \o ", ",
                   !.rep = IF @ = Nil THEN out.result ELSE @]
    ELSE [b EXCEPT !.next = i + 1, !.attempted = Append(@, i),
                   !.errs = Append(@, [relay |-> i, err |-> out.err])]

\* The dispatcher as it would be if only the first failure were kept.
AfterRelay_FirstErrorOnly(b, i, url, out) ==
    IF out.err = Nil
    THEN [b EXCEPT !.next = i + 1, !.attempted = Append(@, i),
                   !.label = @ \o url \o out.result.Result.BundleHash \o ", ",
                   !.rep = out.result]
    ELSE [b EXCEPT !.next = i + 1, !.attempted = Append(@, i),
                   !.errs = IF @ = <<>> THEN <<[relay |-> i, err |-> out.err]>> ELSE @]

\* The dispatcher as it would be if the newest success led the label.
AfterRelay_LabelNewestFirst(b, i, url, out) ==
    IF out.err = Nil
    THEN [b EXCEPT !.next = i + 1, !.attempted = Append(@, i),
                   !.label = url \o out.result.Result.BundleHash \o ", " \o @,
                   !.rep = out.result]
    ELSE [b EXCEPT !.next = i + 1, !.attempted = Append(@, i),
                   !.errs = Append(@, [relay |-> i, err |-> out.err])]

\* The dispatcher's state after relay i returned out: a success appends
\* "<relay-url><bundle-hash>, " to the label and becomes the representative
\* result, a failure is appended to the aggregated error; the next relay
\* follows in both cases.
AfterRelay(b, i, url, out) ==
    IF out.err = Nil
    THEN [b EXCEPT !.next = i + 1, !.attempted = Append(@, i),
                   !.label = @ \o url \o out.result.Result.BundleHash \o ", ",
                   !.rep = out.result]
    ELSE [b EXCEPT !.next = i + 1, !.attempted = Append(@, i),
                   !.errs = Append(@, [relay |-> i, err |-> out.err])]

\* The next relay of the list: skipped when it is not eligible, called
\* otherwise.
BroadcastRelay ==
    /\ bc.pc = "running"
    /\ bc.next <= Len(flashbots)
    /\ LET i  == bc.next
           fb == flashbots[i]
       IN  IF ~Eligible(bc.kind, fb)
           THEN /\ bc' = [bc EXCEPT !.next = i + 1]
                /\ UNCHANGED last
           ELSE \E env \in IF bc.ctx = "cancelled" THEN {[tag |-> "cancelled"]}
                           ELSE BroadcastEnvs :
                    LET out == IF bc.kind = "send"
                               THEN SendBundle(fb, bc.bundle, bc.targetBlock, env)
                               ELSE CallBundle(fb, bc.bundle, U64(0), env)
                    IN  /\ last' = Called(IF bc.kind = "send" THEN "SendBundle"
                                          ELSE "CallBundle", i,
                                          IF bc.kind = "send"
                                          THEN [txsHex |-> bc.bundle,
                                                blockNum |-> bc.targetBlock]
                                          ELSE [txsHex |-> bc.bundle,
                                                blockNumState |-> U64(0)],
                                          env, out)
                        /\ bc' = [AfterRelay(bc, i, fb.api.URL, out) EXCEPT
                                     !.returned = Append(@, [relay |-> i, out |-> out])]
    /\ UNCHANGED flashbots

\* The caller cancels the context of the broadcast between two relays.
BroadcastCancel ==
    /\ bc.pc = "running"
    /\ bc.ctx = "live"
    /\ bc' = [bc EXCEPT !.ctx = "cancelled", !.cancelAt = bc.next]
    /\ UNCHANGED <<flashbots, last>>

\* Terminal return: the representative result and the aggregated error.
BroadcastReturn ==
    /\ bc.pc = "running"
    /\ bc.next > Len(flashbots)
    /\ bc' = [bc EXCEPT !.pc = "done"]
    /\ UNCHANGED <<flashbots, last>>

\* The caller takes the outcome of the broadcast and goes on.
BroadcastContinue ==
    /\ bc.pc = "done"
    /\ bc' = IdleBroadcast
    /\ last' = NoCall
    /\ UNCHANGED flashbots

NextBroadcast ==
    \/ BroadcastBegin
    \/ BroadcastRelay
    \/ BroadcastCancel
    \/ BroadcastReturn
    \/ BroadcastContinue

SpecBroadcast == InitMulti /\ [][NextBroadcast]_vars

---------------------------------------------------------------------------
(* Construction of the clients of several relays: NewMulti applied to     *)
(* every key and every list of endpoints, the empty list and lists with a *)
(* nil endpoint included.                                                  *)

InitNewMulti ==
    /\ flashbots = <<>>
    /\ last = NoCall
    /\ bc = IdleBroadcast

DoNewMulti ==
    /\ Idle
    /\ flashbots = <<>>
    /\ \E prvKey \in PrvKeys \cup {NilKey},
          apis \in BoundedSeq(BroadcastApis \cup {Nil}, MaxRelays) :
           LET out == NewMulti(prvKey, apis)
           IN  /\ last' = [op |-> "NewMulti", args |-> [prvKey |-> prvKey, apis |-> apis],
                           out |-> out]
               /\ flashbots' = out.flashbots
    /\ UNCHANGED bc

\* The caller drops what NewMulti returned.
NewMultiContinue ==
    /\ last # NoCall
    /\ last' = NoCall
    /\ flashbots' = <<>>
    /\ UNCHANGED bc

NextNewMulti ==
    \/ DoNewMulti
    \/ NewMultiContinue

SpecNewMulti == InitNewMulti /\ [][NextNewMulti]_vars

---------------------------------------------------------------------------
(* Properties of a single-relay call.                                      *)

\* The client of the last call.
Self == flashbots[last.client]

\* The last step was a call of one of the seven operations.
IsCall == last.op # "none"

KeyUnset == Self.prvKey = NilKey \/ Self.pubKey = NilKey

Failed == last.out.err # Nil /\ last.out.result = Nil

Succeeded == last.out.err = Nil /\ last.out.result # Nil

NoRequest == last.out.trace.requests = <<>>

\* The call received a 2xx response and read its body.
GotBody ==
    /\ IsCall
    /\ ~NoRequest
    /\ last.env.tag = "resp"
    /\ last.env.status >= 200 /\ last.env.status <= 299
    /\ ~last.env.readErr

\* The Go type of the Result field the operation decodes into.
ResultGoType(op) ==
    CASE op = "SendPrivateTransaction" -> "string"
      [] op = "CancelPrivateTransaction" -> "bool"
      [] OTHER -> "struct"

\* C1: CallBundle on a client whose endpoint has SupportsSimulation = false
\* returns an error and a nil result and hands no request to the HTTP
\* client, whatever the bundle, the state block number and the key.
C1_NoSimulationNoRequest ==
    (last.op = "CallBundle" /\ ~Self.api.SupportsSimulation)
        => (Failed /\ NoRequest /\ ~last.out.trace.delivered)

\* A keyed client without simulation is asked to simulate, and the relay
\* would have answered with a success.
C1_Witness ==
    /\ last.op = "CallBundle"
    /\ ~Self.api.SupportsSimulation
    /\ ~KeyUnset
    /\ last.env.tag = "resp" /\ last.env.status = 200
    /\ Len(last.args.txsHex) = MaxTxs

KeyMissing == last.out.err # Nil /\ Cause(last.out.err) = "private or public key is not set"

\* C2 as stated: every call on a client with an unset key fails with the
\* key-missing error, a nil result and no request.
C2_Original ==
    (IsCall /\ KeyUnset) => (KeyMissing /\ Failed /\ NoRequest)

\* C2 amended: every call on a client with an unset key fails with a nil
\* result and no request; the error is the key-missing error unless
\* CallBundle is refused by the capability check or the request cannot be
\* built from the endpoint's URL, which both come before signing.
C2_KeyUnsetNoRequest ==
    (IsCall /\ KeyUnset)
        => /\ Failed
           /\ NoRequest
           /\ KeyMissing <=>
                 /\ ~(last.op = "CallBundle" /\ ~Self.api.SupportsSimulation)
                 /\ URLParses(Self.api.URL)

\* A client without key is asked to send a bundle to a reachable relay.
C2_Witness ==
    /\ last.op = "SendBundle"
    /\ KeyUnset
    /\ KeyMissing
    /\ last.env.tag = "resp" /\ last.env.status = 200

ResultsOf(body) == IF body.result.t = "object" THEN body.result.results ELSE <<>>

\* C4: SendBundle and CallBundle report a relay-level failure when any
\* entry of the per-transaction results has a non-empty error or revert
\* field, whatever its position.
C4_AnyTxErrorFails ==
    (/\ GotBody
     /\ last.op \in {"SendBundle", "CallBundle"}
     /\ last.env.body.json
     /\ last.env.body.error.Code = 0
     /\ \E i \in 1..Len(ResultsOf(last.env.body)) :
            \/ ResultsOf(last.env.body)[i].Error # ""
            \/ ResultsOf(last.env.body)[i].Revert # "")
        => Failed

\* C5: SendBundle returns a result and no error for both success shapes:
\* a bare boolean result and an object with bundleHash and results without
\* error.
C5_BothSendShapesDecode ==
    (/\ GotBody
     /\ last.op = "SendBundle"
     /\ last.env.body.json
     /\ last.env.body.error.Code = 0
     /\ \/ last.env.body.result.t = "bool"
        \/ /\ last.env.body.result.t = "object"
           /\ \A i \in 1..Len(ResultsOf(last.env.body)) :
                  /\ ResultsOf(last.env.body)[i].Error = ""
                  /\ ResultsOf(last.env.body)[i].Revert = "")
        => Succeeded

\* The error has a frame whose message holds the raw body.
CarriesBody(err, body) ==
    \E i \in 1..Len(err.frames) :
        /\ "body" \in DOMAIN err.frames[i].detail
        /\ err.frames[i].detail.body = body

\* C6: a 2xx body that does not decode into the shape of the operation
\* makes every operation fail with a nil result and an error that carries
\* the raw body.
C6_DecodeErrorCarriesBody ==
    (GotBody /\ UnmarshalFails(ResultGoType(last.op), last.env.body))
        => (Failed /\ CarriesBody(last.out.err, last.env.body))

\* C7: a call hands at most one request to the HTTP client, whatever its
\* outcome.
C7_AtMostOneRequest ==
    IsCall => Len(last.out.trace.requests) <= 1

\* A call whose single request was sent and got no answer.
C7_Witness ==
    /\ IsCall
    /\ last.env.tag \in {"neterr", "timeout"}
    /\ Len(last.out.trace.requests) = 1
    /\ Failed

\* C8: a response with a status outside 200..299 makes the call fail with
\* a nil result, and its body is not decoded.
C8_BadStatusFails ==
    (/\ IsCall
     /\ ~NoRequest
     /\ last.env.tag = "resp"
     /\ (last.env.status < 200 \/ last.env.status > 299))
        => /\ Failed
           /\ \A i \in 1..Len(last.out.trace.stages) : last.out.trace.stages[i] # "decode"
           /\ Messages(last.out.err)[Len(last.out.err.frames)]
                  \in {"bad response status", "bad response resp respDump"}

\* A relay answers a send with status 300 and a well-formed success body.
C8_Witness ==
    /\ last.op = "SendBundle"
    /\ ~NoRequest
    /\ last.env.tag = "resp"
    /\ last.env.status = 300
    /\ ~last.env.readErr
    /\ last.env.body = SuccessBody
    /\ Failed

\* C9: the transaction list in the params of a SendBundle or CallBundle
\* request is the caller's bundle, element by element.
C9_BundlePreserved ==
    (last.op \in {"SendBundle", "CallBundle"} /\ ~NoRequest)
        => TxsOf(last.out.trace.requests[1].Body) = last.args.txsHex

\* A bundle of two different transactions has been put into a request.
C9_Witness ==
    /\ last.op \in {"SendBundle", "CallBundle"}
    /\ ~NoRequest
    /\ last.args.txsHex = <<"0xbb", "0xaa">>

---------------------------------------------------------------------------
(* Properties of a broadcast.                                              *)

\* The relays among the first n of the list that are eligible for the
\* kind, in the order of the list.
RECURSIVE EligibleUpTo(_, _)
EligibleUpTo(kind, n) ==
    IF n = 0 THEN <<>>
    ELSE IF Eligible(kind, flashbots[n])
         THEN Append(EligibleUpTo(kind, n - 1), n)
         ELSE EligibleUpTo(kind, n - 1)

\* C10: a failure never ends a broadcast: the relays attempted so far are
\* the eligible relays before the next one, once each and in the order of
\* the list, and the broadcast returns only after the last relay.
C10_FailureNeverAborts ==
    bc.pc \in {"running", "done"}
        => /\ bc.next \in 1..(Len(flashbots) + 1)
           /\ bc.attempted = EligibleUpTo(bc.kind, bc.next - 1)
           /\ bc.pc = "done" => bc.next = Len(flashbots) + 1

\* A broadcast over several relays has returned although its first relay
\* failed.
C10_Witness ==
    /\ bc.pc = "done"
    /\ Len(flashbots) = MaxRelays
    /\ Len(bc.attempted) = MaxRelays
    /\ Len(bc.errs) >= 1
    /\ bc.errs[1].relay = 1

---------------------------------------------------------------------------
(* Properties of the outcome of a broadcast.                               *)

\* The relay call r of a broadcast succeeded.
Ok(r) == r.out.err = Nil

\* The calls of rs that succeeded, and those that failed, in their order.
Successes(rs) == SelectSeq(rs, LAMBDA r : Ok(r))

Failures(rs) == SelectSeq(rs, LAMBDA r : ~Ok(r))

\* "<relay-url><bundle-hash>, " of every call of rs, in their order.
RECURSIVE LabelOf(_)
LabelOf(rs) ==
    IF rs = <<>> THEN ""
    ELSE LabelOf(SubSeq(rs, 1, Len(rs) - 1))
             \o flashbots[rs[Len(rs)].relay].api.URL
             \o rs[Len(rs)].out.result.Result.BundleHash \o ", "

\* The aggregated error holds the failures of rs, one entry each, in
\* their order.
ErrsAre(rs) ==
    /\ Len(bc.errs) = Len(Failures(rs))
    /\ \A k \in 1..Len(bc.errs) :
           /\ bc.errs[k].relay = Failures(rs)[k].relay
           /\ bc.errs[k].err = Failures(rs)[k].out.err

\* C11: a broadcast that returns after some relays succeeded and some
\* failed returns a non-nil aggregated error with exactly one entry for
\* each relay that failed and none for a relay that succeeded, and a label
\* that is "<relay-url><bundle-hash>, " of the relays that succeeded, in
\* the order of the list.
C11_PartialSuccess ==
    (/\ bc.pc = "done"
     /\ Successes(bc.returned) # <<>>
     /\ Failures(bc.returned) # <<>>)
        => /\ bc.errs # <<>>
           /\ ErrsAre(bc.returned)
           /\ \A k \in 1..Len(bc.errs), j \in 1..Len(Successes(bc.returned)) :
                  bc.errs[k].relay # Successes(bc.returned)[j].relay
           /\ bc.label = LabelOf(Successes(bc.returned))

\* Three relays of which the first and the third succeeded, with different
\* bundle hashes, and the second failed.
C11_Witness ==
    /\ bc.pc = "done"
    /\ Len(flashbots) = 3
    /\ Len(bc.returned) = 3
    /\ Ok(bc.returned[1]) /\ ~Ok(bc.returned[2]) /\ Ok(bc.returned[3])
    /\ bc.returned[1].out.result.Result.BundleHash
           # bc.returned[3].out.result.Result.BundleHash
    /\ flashbots[1].api.URL # flashbots[3].api.URL
    /\ bc.label = "https://relay.flashbots.net0xb1, https://call.example0xb2, "

\* C12 as stated: a broadcast in which every attempted relay failed returns
\* a nil representative result and a non-nil aggregated error with one
\* entry per attempted relay.
C12_Original ==
    (bc.pc = "done" /\ Successes(bc.returned) = <<>>)
        => /\ bc.rep = Nil
           /\ bc.errs # <<>>
           /\ ErrsAre(bc.returned)

\* C12 amended: a broadcast in which at least one relay was attempted and
\* every attempted relay failed returns a nil representative result and a
\* non-nil aggregated error with exactly one entry per attempted relay; a
\* broadcast that attempted no relay, which is a broadcastCall over relays
\* without simulation, returns a nil result and a nil aggregated error.
C12_AllFail ==
    (bc.pc = "done" /\ Successes(bc.returned) = <<>>)
        => /\ bc.rep = Nil
           /\ ErrsAre(bc.returned)
           /\ Len(bc.errs) = Len(bc.attempted)
           /\ \A k \in 1..Len(bc.errs) : bc.errs[k].relay = bc.attempted[k]
           /\ bc.errs # <<>> <=> bc.attempted # <<>>
           /\ bc.attempted = <<>>
                 <=> (bc.kind = "call"
                      /\ \A i \in 1..Len(flashbots) :
                             ~flashbots[i].api.SupportsSimulation)

\* Three relays of a keyed client were attempted and all failed, not all
\* for the same reason.
C12_Witness ==
    /\ bc.pc = "done"
    /\ Len(flashbots) = 3
    /\ flashbots[1].prvKey # NilKey
    /\ Len(bc.returned) = 3
    /\ Successes(bc.returned) = <<>>
    /\ Len(bc.errs) = 3
    /\ Cause(bc.errs[1].err) # Cause(bc.errs[3].err)

\* The relays the entries of a sequence name.
RelaysOf(es) == { es[k].relay : k \in 1..Len(es) }

\* C13: broadcastCall skips every relay without simulation: no call is
\* issued to it and it has no entry in the aggregated error; when every
\* relay that was called succeeded the aggregated error is nil.
C13_CallSkipsNoSimulation ==
    (bc.pc \in {"running", "done"} /\ bc.kind = "call")
        => /\ \A i \in 1..Len(flashbots) :
                  ~flashbots[i].api.SupportsSimulation
                      => /\ i \notin RelaysOf(bc.returned)
                         /\ i \notin RelaysOf(bc.errs)
                         /\ \A k \in 1..Len(bc.attempted) : bc.attempted[k] # i
           /\ IsCall => (last.op = "CallBundle" /\ Self.api.SupportsSimulation)
           /\ (bc.pc = "done" /\ Failures(bc.returned) = <<>>) => bc.errs = <<>>

\* A broadcastCall over three relays of which the second does not support
\* simulation has returned after the two others succeeded.
C13_Witness ==
    /\ bc.pc = "done"
    /\ bc.kind = "call"
    /\ Len(flashbots) = 3
    /\ ~flashbots[2].api.SupportsSimulation
    /\ RelaysOf(Successes(bc.returned)) = {1, 3}
    /\ bc.errs = <<>>
    /\ bc.rep # Nil

\* C14: the representative result of a broadcast is the whole result of the
\* last relay of the list whose call succeeded, nil when none did; the
\* successes before it are superseded, and the label keeps the URL and the
\* bundle hash of each of them.
C14_LastSuccessRepresents ==
    bc.pc \in {"running", "done"}
        => LET ok == Successes(bc.returned)
           IN  /\ ok = <<>> => bc.rep = Nil
               /\ ok # <<>>
                     => /\ bc.rep = ok[Len(ok)].out.result
                        /\ \A k \in 1..Len(ok) : ok[k].relay <= ok[Len(ok)].relay
                        /\ bc.label = LabelOf(SubSeq(ok, 1, Len(ok) - 1))
                                         \o flashbots[ok[Len(ok)].relay].api.URL
                                         \o bc.rep.Result.BundleHash \o ", "

\* The first and the last relay of three succeeded with different results:
\* the result returned is the last one's, and the first one's bundle hash is
\* in the label.
C14_Witness ==
    /\ bc.pc = "done"
    /\ Len(flashbots) = 3
    /\ Len(bc.returned) >= 2
    /\ Ok(bc.returned[1])
    /\ bc.returned[1].out.result.Result.BundleHash = "0xb1"
    /\ Ok(bc.returned[Len(bc.returned)])
    /\ bc.returned[Len(bc.returned)].relay = 3
    /\ bc.rep.Result.BundleHash = "0xb2"
    /\ SubSeq(bc.label, 1, Len(flashbots[1].api.URL) + 4)
           = flashbots[1].api.URL \o "0xb1"

\* The relays the broadcast had not yet reached when the caller cancelled
\* and has passed since.
PassedAfterCancel ==
    IF bc.pc \in {"running", "done"} /\ bc.ctx = "cancelled"
    THEN bc.cancelAt..(bc.next - 1)
    ELSE {}

\* What the call on relay i returned.
ReturnedBy(i) == { bc.returned[k].out : k \in { j \in 1..Len(bc.returned) :
                                                 bc.returned[j].relay = i } }

\* The entries of the aggregated error for relay i.
ErrsOf(i) == { bc.errs[k].err : k \in { j \in 1..Len(bc.errs) :
                                         bc.errs[j].relay = i } }

TransportFailure(err) ==
    /\ err # Nil
    /\ Len(err.frames) >= 2
    /\ err.frames[Len(err.frames) - 1].msg = "flashbot request"

---------------------------------------------------------------------------
(* Properties of the request of a call.                                    *)

\* The request the last call handed to the HTTP client.
Request == last.out.trace.requests[1]

\* C16: the signature header of a request is a function of the payload and
\* the key pair of the client alone: it has the two parts address and
\* signature, the address is the one derived from the private key that
\* signed, and the signature is that key's signature of the payload sent.
C16_SignatureHeader ==
    (IsCall /\ ~NoRequest)
        => LET h == Request.Header.XFlashbotsSignature
           IN  /\ DOMAIN h = {"address", "signature"}
               /\ h.signature = Sign(Request.Body, Self.prvKey)
               /\ h.address = PubkeyToAddress(h.signature.signer)
               /\ h.address = Self.pubKey

\* A client that holds the second key has sent a bundle under that key's
\* address.
C16_Witness ==
    /\ last.op = "SendBundle"
    /\ ~NoRequest
    /\ Self.prvKey = "k2"
    /\ Request.Header.XFlashbotsSignature.address = "0xA2"
    /\ Request.Header.XFlashbotsSignature.signature.signer = "k2"
    /\ last.out.trace.delivered

\* C17: a call whose request is in flight when the caller's deadline or
\* cancellation fires returns a transport failure and a nil result, never
\* a success; it reads no response.
C17_DeadlineInFlightFails ==
    (IsCall /\ ~NoRequest /\ last.env.tag \in {"timeout", "cancelled"})
        => /\ Failed
           /\ ~Succeeded
           /\ TransportFailure(last.out.err)
           /\ Cause(last.out.err) \in {"context deadline exceeded", "context canceled"}
           /\ ~last.out.trace.gotResponse
           /\ Len(last.out.trace.requests) = 1

\* The deadline fired while the request of a bundle simulation was with
\* the relay.
C17_Witness ==
    /\ last.op = "CallBundle"
    /\ last.env.tag = "timeout"
    /\ ~NoRequest
    /\ last.out.trace.delivered
    /\ Failed
    /\ Messages(last.out.err)
           = <<"flashbot call request", "flashbot request", "context deadline exceeded">>

\* C18: no step after construction changes the private key or the derived
\* address of a client.
C18_KeyPairImmutable ==
    [][\A i \in 1..Len(flashbots) :
           /\ flashbots'[i].prvKey = flashbots[i].prvKey
           /\ flashbots'[i].pubKey = flashbots[i].pubKey]_vars

\* C19: the method of a CallBundle request is the endpoint's MethodCall
\* when that is set and eth_callBundle otherwise, whatever MethodSend is.
C19_CallMethodName ==
    (last.op = "CallBundle" /\ ~NoRequest)
        => Request.Body.Method = IF Self.api.MethodCall # ""
                                 THEN Self.api.MethodCall
                                 ELSE "eth_callBundle"

\* The one parameter object of the last request.
RequestParams == Request.Body.Params[1]

RelayErrorReturned ==
    /\ last.out.err # Nil
    /\ Cause(last.out.err) = "flashbot request returned an error"

\* C20: every CallBundle request carries the sentinel 100000000000000, in
\* hex, as blockNumber whatever the caller passes, and as stateBlockNumber
\* "latest" when the caller's state block number is 0 and its hex encoding
\* otherwise; a relay error of the call reports the sentinel as its block.
C20_SentinelBlock ==
    last.op = "CallBundle"
        => /\ ~NoRequest
                 => /\ RequestParams["blockNumber"].s = "0x5af3107a4000"
                    /\ RequestParams["stateBlockNumber"].s
                           = IF last.args.blockNumState = U64(0) THEN "latest"
                             ELSE IF last.args.blockNumState = U64(26) THEN "0x1a"
                             ELSE EncodeUint64(last.args.blockNumState)
           /\ RelayErrorReturned
                 => EncodeUint64(last.out.err.frames[Len(last.out.err.frames)].detail.block)
                        = "0x5af3107a4000"

\* A simulation on state block 26 was answered with a relay error.
C20_Witness ==
    /\ last.op = "CallBundle"
    /\ last.args.blockNumState = U64(26)
    /\ ~NoRequest
    /\ RequestParams["stateBlockNumber"].s = "0x1a"
    /\ RelayErrorReturned

\* C21: every request a client hands to the HTTP client is a POST to the
\* URL of its endpoint with content-type and Accept application/json, the
\* signature header computed over exactly the body of that request, and
\* every custom header of the endpoint.
C21_RequestShape ==
    (IsCall /\ ~NoRequest)
        => /\ \A k \in 1..Len(last.out.trace.requests) :
                  LET r == last.out.trace.requests[k]
                  IN  /\ r.Method = "POST"
                      /\ r.URL = Self.api.URL
                      /\ r.Header.contentType = "application/json"
                      /\ r.Header.Accept = "application/json"
                      /\ r.Header.XFlashbotsSignature
                             = signPayload(r.Body, Self.prvKey, Self.pubKey).header
                      /\ r.Header.XFlashbotsSignature.signature.digestOf = r.Body
                      /\ r.Header.custom = Self.api.CustomHeaders

\* A client of an endpoint with a custom header has sent a request that
\* reached the relay.
C21_Witness ==
    /\ IsCall
    /\ ~NoRequest
    /\ last.out.trace.delivered
    /\ Self.api.CustomHeaders = {<<"Authorization", "token">>}
    /\ Request.Header.custom = {<<"Authorization", "token">>}
    /\ Request.Method = "POST"

---------------------------------------------------------------------------
(* Properties of the course of a call.                                     *)

\* The stages of an operation in the order of the code.
StageOrder(op) ==
    (IF op = "CallBundle" THEN <<"capability">> ELSE <<>>)
        \o <<"encode", "newrequest", "sign", "send", "status", "read", "close",
             "decode", "relayerr">>

Stages == last.out.trace.stages

Ran(stage) == \E k \in 1..Len(Stages) : Stages[k] = stage

\* The error a failure of the stage returns.
ErrorOfStage(stage, err) ==
    CASE stage = "capability" -> Cause(err) = "doesn't support simulations relay"
      [] stage = "newrequest" ->
             \E k \in 1..Len(err.frames) : err.frames[k].msg = "creatting flashbot request"
      [] stage = "sign" ->
             /\ Cause(err) = "private or public key is not set"
             /\ \E k \in 1..Len(err.frames) : err.frames[k].msg = "signing flashbot request"
      [] stage = "send" -> TransportFailure(err)
      [] stage = "status" ->
             Cause(err) \in {"bad response status", "bad response resp respDump"}
      [] stage = "read" ->
             \E k \in 1..Len(err.frames) : err.frames[k].msg = "reading flashbot reply"
      [] stage = "decode" -> Cause(err) = "json"
      [] stage = "relayerr" -> Cause(err) = "flashbot request returned an error"
      [] OTHER -> FALSE

\* C22: the stages of a call run in the fixed order capability check
\* (CallBundle only), encode, sign, send, status check, decode, relay-error
\* check: the stages that ran are a prefix of that order, a call that
\* succeeded ran all of them, a call that failed returns the error of the
\* last stage that ran, and no request was sent or response read unless its
\* stage was reached.
C22_StagesInOrder ==
    IsCall
        => /\ Len(Stages) >= 1
           /\ Len(Stages) <= Len(StageOrder(last.op))
           /\ Stages = SubSeq(StageOrder(last.op), 1, Len(Stages))
           /\ last.out.err = Nil <=> (Stages = StageOrder(last.op) /\ last.out.result # Nil)
           /\ last.out.err # Nil => ErrorOfStage(Stages[Len(Stages)], last.out.err)
           /\ Ran("send") <=> ~NoRequest
           /\ Ran("status") <=> last.out.trace.gotResponse

\* A simulation was refused by the status check: the request was sent, and
\* nothing was decoded.
C22_Witness ==
    /\ last.op = "CallBundle"
    /\ Stages = <<"capability", "encode", "newrequest", "sign", "send", "status">>
    /\ last.env.tag = "resp" /\ last.env.status = 404
    /\ Failed
    /\ ~Ran("decode")

\* C23: every call of the seven operations returns exactly one of a
\* result and an error: never both, never neither.
C23_ResultXorError ==
    IsCall => (last.out.result = Nil) # (last.out.err = Nil)

\* A private transaction was answered with a relay error: the call returns
\* the error and no result.
C23_Witness ==
    /\ last.op = "SendPrivateTransaction"
    /\ GotBody
    /\ ~UnmarshalFails("string", last.env.body)
    /\ last.env.body.error.Code # 0
    /\ last.out.result = Nil
    /\ last.out.err # Nil

---------------------------------------------------------------------------
(* Properties of construction.                                             *)

\* The list has no endpoint at all or a nil one.
BadApis(apis) == apis = <<>> \/ \E k \in 1..Len(apis) : apis[k] = Nil

\* C24: NewMulti never panics; it returns an error and no client exactly
\* when the list is empty or holds a nil endpoint, and otherwise one client
\* per endpoint, in the order of the list, each with its own endpoint and
\* the shared key.
C24_NewMultiNeverPanics ==
    last.op = "NewMulti"
        => LET apis == last.args.apis
               out  == last.out
           IN  /\ ~out.panic
               /\ out.err # Nil <=> BadApis(apis)
               /\ out.err # Nil => out.flashbots = <<>>
               /\ out.err = Nil
                     => /\ Len(out.flashbots) = Len(apis)
                        /\ \A k \in 1..Len(apis) :
                               /\ out.flashbots[k].api = apis[k]
                               /\ out.flashbots[k].prvKey = last.args.prvKey

---------------------------------------------------------------------------
(* Properties of the params and the method of a request.                   *)

\* C25: the request of SendPrivateTransaction carries the caller's fast
\* argument as preferences.fast, so that a call with fast and the same call
\* without it send different params.
C25_FastCarried ==
    (last.op = "SendPrivateTransaction" /\ ~NoRequest)
        => ("fast" \in DOMAIN RequestParams["preferences"].obj) <=> last.args.fast

\* The method of the operations that have no override in the endpoint.
FixedMethod(op) ==
    CASE op = "EstimateGasBundle" -> "eth_estimateGasBundle"
      [] op = "SendPrivateTransaction" -> "eth_sendPrivateTransaction"
      [] op = "CancelPrivateTransaction" -> "eth_cancelPrivateTransaction"
      [] op = "GetBundleStats" -> "flashbots_getBundleStats"
      [] op = "GetUserStats" -> "flashbots_getUserStats"

\* C26: the request of EstimateGasBundle has the method
\* eth_estimateGasBundle, and the requests of the stats and private
\* transaction operations their own fixed methods, whatever MethodSend and
\* MethodCall of the endpoint are.
C26_FixedMethodNames ==
    (/\ last.op \in {"EstimateGasBundle", "SendPrivateTransaction",
                     "CancelPrivateTransaction", "GetBundleStats", "GetUserStats"}
     /\ ~NoRequest)
        => Request.Body.Method = FixedMethod(last.op)

---------------------------------------------------------------------------
(* Properties of the resources of a call.                                  *)

\* C27: a call that obtained an HTTP response has closed the body of the
\* response when it returns, whether it succeeded, met a bad status or
\* failed to read the body.
C27_BodyClosed ==
    (IsCall /\ last.out.trace.gotResponse) => last.out.trace.bodyClosed

====
